---- MODULE Spec2Model ----
(***************************************************************************)
(* A model of stractor's extraction engine (src/src/stractor/core.py):     *)
(* Stractor.parse and the structural queries it runs over a syntax tree.   *)
(*                                                                         *)
(* Text is a sequence of one-character strings, bytes a sequence of byte   *)
(* tokens.  A syntax-tree node is a record                                 *)
(*   [type, field, start, end, children]                                   *)
(* with start/end byte offsets into the parsed bytes, as the tree-sitter   *)
(* nodes the code reads (node.start_byte, node.end_byte).                  *)
(***************************************************************************)
EXTENDS Integers, Sequences, FiniteSets, TLC

VARIABLES contents, tree, result, lastSrc, lastPath, reused

vars == <<contents, tree, result, lastSrc, lastPath, reused>>

\* contents, tree: the instance's fields self.contents and self.tree
\* result:   what the last parse call handed back
\* lastSrc, lastPath: the arguments of the last parse call
\* reused:   the last parse call ran on an instance that had parsed before

\* Python's None, kept a sequence so that it compares with text.
None == <<"None">>

----------------------------------------------------------------------------
(* Python string primitives used by core.py                                *)

Whitespace == {" ", "\n", "\t"}

RECURSIVE LStrip(_, _)
LStrip(s, cs) ==
    IF s = <<>> THEN s
    ELSE IF Head(s) \in cs THEN LStrip(Tail(s), cs) ELSE s

RECURSIVE RStrip(_, _)
RStrip(s, cs) ==
    IF s = <<>> THEN s
    ELSE IF s[Len(s)] \in cs THEN RStrip(SubSeq(s, 1, Len(s) - 1), cs) ELSE s

\* str.strip(chars): every leading and trailing character in chars is removed.
StripChars(s, cs) == RStrip(LStrip(s, cs), cs)

\* str.strip()
Strip(s) == StripChars(s, Whitespace)

\* sub in s
Contains(sub, s) ==
    \E i \in 0..(Len(s) - Len(sub)) : SubSeq(s, i + 1, i + Len(sub)) = sub

\* s.split('\n')
RECURSIVE SplitLines(_)
SplitLines(s) ==
    IF \A i \in 1..Len(s) : s[i] # "\n" THEN <<s>>
    ELSE LET i == CHOOSE i \in 1..Len(s) :
                      s[i] = "\n" /\ \A j \in 1..(i - 1) : s[j] # "\n"
         IN  <<SubSeq(s, 1, i - 1)>> \o SplitLines(SubSeq(s, i + 1, Len(s)))

\* '\n'.join(lines)
RECURSIVE JoinLines(_)
JoinLines(lines) ==
    IF lines = <<>> THEN <<>>
    ELSE IF Len(lines) = 1 THEN lines[1]
    ELSE lines[1] \o <<"\n">> \o JoinLines(Tail(lines))

----------------------------------------------------------------------------
(* UTF-8: str.encode('utf-8') and bytes.decode('utf-8').  Every character  *)
(* of the modelled alphabet is one byte, except e-acute (the token
(* "e_acute"), which is two.                                              *)     *)

Utf8(c) == IF c = "e_acute" THEN <<"0xC3", "0xA9">> ELSE <<c>>

RECURSIVE Encode(_)
Encode(s) ==
    IF s = <<>> THEN <<>>
    ELSE IF Len(s) = 1 THEN Utf8(s[1])
    ELSE LET h == Len(s) \div 2
         IN  Encode(SubSeq(s, 1, h)) \o Encode(SubSeq(s, h + 1, Len(s)))

RECURSIVE Decode(_)
Decode(b) ==
    IF b = <<>> THEN <<>>
    ELSE IF b = <<"0xC3", "0xA9">> THEN <<"e_acute">>
    ELSE IF Len(b) <= 2 /\ b[1] # "0xC3" THEN <<b[1]>> \o Decode(Tail(b))
    ELSE IF Len(b) <= 2 THEN b
    ELSE LET h == Len(b) \div 2
             \* never cut between the two bytes of a character
             m == IF b[h] = "0xC3" /\ b[h + 1] = "0xA9" THEN h + 1 ELSE h
         IN  Decode(SubSeq(b, 1, m)) \o Decode(SubSeq(b, m + 1, Len(b)))

\* The length in bytes of a text.
BLen(s) == Len(Encode(s))

----------------------------------------------------------------------------
(* Source programs.  A program is a sequence of statements; a statement is *)
(* one of the shapes below.  blank is the number of empty lines that       *)
(* follow the statement inside its block.                                  *)

Simple(type, text) ==
    [k |-> "simple", type |-> type, inner |-> "", text |-> text, name |-> <<>>,
     params |-> <<>>, ret |-> None, body |-> <<>>, blank |-> 0]

Expr(inner, text, blank) ==
    [k |-> "expr", type |-> "expression_statement", inner |-> inner,
     text |-> text, name |-> <<>>, params |-> <<>>, ret |-> None,
     body |-> <<>>, blank |-> blank]

Def(name, params, ret, body) ==
    [k |-> "def", type |-> "function_definition", inner |-> "", text |-> <<>>,
     name |-> name, params |-> params, ret |-> ret, body |-> body, blank |-> 0]

Cls(name, body) ==
    [k |-> "class", type |-> "class_definition", inner |-> "", text |-> <<>>,
     name |-> name, params |-> <<>>, ret |-> None, body |-> body, blank |-> 0]

Indent(n) == [i \in 1..n |-> " "]

Newlines(n) == [i \in 1..n |-> "\n"]

RECURSIVE Render(_, _), RenderBlock(_, _)
\* The source text of a statement whose first line is indented ind columns.
Render(s, ind) ==
    CASE s.k \in {"simple", "expr"} -> s.text
      [] s.k = "def" ->
            <<"d", "e", "f", " ">> \o s.name \o s.params
            \o (IF s.ret = None THEN <<>> ELSE <<" ", "-", ">", " ">> \o s.ret)
            \o <<":", "\n">> \o Indent(ind + 1) \o RenderBlock(s.body, ind + 1)
      [] s.k = "class" ->
            <<"c", "l", "a", "s", "s", " ">> \o s.name
            \o <<":", "\n">> \o Indent(ind + 1) \o RenderBlock(s.body, ind + 1)

RenderBlock(stmts, ind) ==
    IF stmts = <<>> THEN <<>>
    ELSE IF Len(stmts) = 1 THEN Render(stmts[1], ind)
    ELSE Render(stmts[1], ind) \o Newlines(1 + stmts[1].blank) \o Indent(ind)
         \o RenderBlock(Tail(stmts), ind)

\* The text handed to parse for a program.
Source(p) == RenderBlock(p, 0)

----------------------------------------------------------------------------
(* The parse engine (tree-sitter, python grammar) on the text of a         *)
(* program: the syntax tree, each node with its byte range.  A block       *)
(* starts at its first statement and ends with its last.                   *)

Node(type, field, start, end, children) ==
    [type |-> type, field |-> field, start |-> start, end |-> end,
     children |-> children]

NoNode == Node("None", "", 0, 0, <<>>)

RECURSIVE LayoutStmt(_, _, _), LayoutBlock(_, _, _)
LayoutStmt(s, off, ind) ==
    CASE s.k = "simple" -> Node(s.type, "", off, off + BLen(s.text), <<>>)
      [] s.k = "expr" ->
            Node("expression_statement", "", off, off + BLen(s.text),
                 <<Node(s.inner, "", off, off + BLen(s.text), <<>>)>>)
      [] s.k = "def" ->
            LET nameOff == off + 4
                parOff  == nameOff + BLen(s.name)
                parEnd  == parOff + BLen(s.params)
                retOff  == parEnd + 4
                hdrEnd  == IF s.ret = None THEN parEnd ELSE retOff + BLen(s.ret)
                bodyOff == hdrEnd + 2 + ind + 1
                kids    == LayoutBlock(s.body, bodyOff, ind + 1)
                bodyEnd == kids[Len(kids)].end
            IN  Node("function_definition", "", off, bodyEnd,
                     <<Node("identifier", "name", nameOff, parOff, <<>>),
                       Node("parameters", "parameters", parOff, parEnd, <<>>)>>
                     \o (IF s.ret = None THEN <<>>
                         ELSE <<Node("type", "return_type", retOff, hdrEnd, <<>>)>>)
                     \o <<Node("block", "body", bodyOff, bodyEnd, kids)>>)
      [] s.k = "class" ->
            LET nameOff == off + 6
                hdrEnd  == nameOff + BLen(s.name)
                bodyOff == hdrEnd + 2 + ind + 1
                kids    == LayoutBlock(s.body, bodyOff, ind + 1)
                bodyEnd == kids[Len(kids)].end
            IN  Node("class_definition", "", off, bodyEnd,
                     <<Node("identifier", "name", nameOff, hdrEnd, <<>>),
                       Node("block", "body", bodyOff, bodyEnd, kids)>>)

LayoutBlock(stmts, off, ind) ==
    IF stmts = <<>> THEN <<>>
    ELSE LET n == LayoutStmt(stmts[1], off, ind)
         IN  <<n>> \o (IF Len(stmts) = 1 THEN <<>>
                       ELSE LayoutBlock(Tail(stmts),
                                        n.end + 1 + stmts[1].blank + ind, ind))

\* parser.parse(bytes) for the bytes of program p.
ParserParse(p) ==
    LET kids == LayoutBlock(p, 0, 0)
    IN  Node("module", "", 0,
             IF kids = <<>> THEN 0 ELSE kids[Len(kids)].end, kids)

----------------------------------------------------------------------------
(* Structural queries, as the parse engine answers them.  A match is the   *)
(* dictionary of its captures: capture name -> sequence of nodes; a        *)
(* capture that bound nothing is not a key.  Matches come in the order in  *)
(* which the engine completes them on its walk of the tree.                *)

IsStringStmt(n) ==
    /\ n.type = "expression_statement"
    /\ \E i \in 1..Len(n.children) : n.children[i].type = "string"

StringOf(n) ==
    n.children[CHOOSE i \in 1..Len(n.children) : n.children[i].type = "string"]

RECURSIVE SelectSeq2(_, _)
\* The subsequence of the nodes of s whose type is in types.
SelectSeq2(s, types) ==
    IF s = <<>> THEN <<>>
    ELSE (IF Head(s).type \in types THEN <<Head(s)>> ELSE <<>>)
         \o SelectSeq2(Tail(s), types)

RECURSIVE StringStmts(_)
\* The bare string statements among the statements s, in order.
StringStmts(s) ==
    IF s = <<>> THEN <<>>
    ELSE (IF IsStringStmt(Head(s)) THEN <<Head(s)>> ELSE <<>>)
         \o StringStmts(Tail(s))

ChildrenOfField(n, f) ==
    LET RECURSIVE Pick(_)
        Pick(s) == IF s = <<>> THEN <<>>
                   ELSE (IF Head(s).field = f THEN <<Head(s)>> ELSE <<>>)
                        \o Pick(Tail(s))
    IN  Pick(n.children)

BodyOf(n) == ChildrenOfField(n, "body")[1]

\* (module (expression_statement (string) @doc)) from the root: one match
\* for every direct child of the module that is a bare string statement.
ModuleDocMatches(root) ==
    LET ss == StringStmts(root.children)
    IN  [i \in 1..Len(ss) |-> [doc |-> <<StringOf(ss[i])>>]]

\* query.captures for (module (import_statement)? @import
\* (import_from_statement)? @import): the import statements that are direct
\* children of the module, each node once, in the order of the walk (the
\* engine hands back bindings in source order).
ImportCaptures(root) ==
    LET ns == SelectSeq2(root.children,
                         {"import_statement", "import_from_statement"})
    IN  IF ns = <<>> THEN [x \in {} |-> <<>>] ELSE [import |-> ns]

RECURSIVE AssignmentsOf(_)
AssignmentsOf(s) ==
    IF s = <<>> THEN <<>>
    ELSE (IF Head(s).type = "expression_statement"
          THEN SelectSeq2(Head(s).children, {"assignment"}) ELSE <<>>)
         \o AssignmentsOf(Tail(s))

\* query.captures for (module (expression_statement (assignment) @assignment))
AssignmentCaptures(root) ==
    LET ns == AssignmentsOf(root.children)
    IN  IF ns = <<>> THEN [x \in {} |-> <<>>] ELSE [assignment |-> ns]

\* The captures of one function_definition node.
FunctionMatch(fn) ==
    LET base == [name   |-> ChildrenOfField(fn, "name"),
                 params |-> ChildrenOfField(fn, "parameters"),
                 body   |-> ChildrenOfField(fn, "body")]
        rt   == ChildrenOfField(fn, "return_type")
    IN  IF rt = <<>> THEN base
        ELSE [name |-> base.name, params |-> base.params,
              return_type |-> rt, body |-> base.body]

\* (module (function_definition ...)) from the root: the function
\* definitions that are direct children of the module.
ModuleFunctionMatches(root) ==
    LET fs == SelectSeq2(root.children, {"function_definition"})
    IN  [i \in 1..Len(fs) |-> FunctionMatch(fs[i])]

RECURSIVE Descendants(_), DescendantsOfAll(_)
\* A node and all the nodes below it, in the order of the engine's walk.
Descendants(n) == <<n>> \o DescendantsOfAll(n.children)

DescendantsOfAll(s) ==
    IF s = <<>> THEN <<>> ELSE Descendants(Head(s)) \o DescendantsOfAll(Tail(s))

\* (function_definition ...) from a class node: the pattern has no parent,
\* so it matches every function definition below the node, at any depth.
MethodMatches(class_node) ==
    LET fs == SelectSeq2(Descendants(class_node), {"function_definition"})
    IN  [i \in 1..Len(fs) |-> FunctionMatch(fs[i])]

RECURSIVE BlockDocNodes(_), BlockDocNodesOfAll(_, _)
\* The string nodes of the bare string statements that are direct children
\* of a block, for every block at or below n, in the order of the walk.
BlockDocNodes(n) == BlockDocNodesOfAll(n.children, n.type = "block")

BlockDocNodesOfAll(s, inBlock) ==
    IF s = <<>> THEN <<>>
    ELSE (IF inBlock /\ IsStringStmt(Head(s)) THEN <<StringOf(Head(s))>>
          ELSE BlockDocNodes(Head(s)))
         \o BlockDocNodesOfAll(Tail(s), inBlock)

\* (block (expression_statement (string) @doc)) from a body node.
BlockDocMatches(body_node) ==
    LET ds == BlockDocNodes(body_node)
    IN  [i \in 1..Len(ds) |-> [doc |-> <<ds[i]>>]]

RECURSIVE ClassMatchesAt(_), ClassMatchesOfAll(_)
\* (class_definition name: ... body: (block (expression_statement
\* (string))? @doc)) @class_node from n: every class definition at or below
\* n.  A class whose body has bare string statements matches once per such
\* statement, completed when the statement is reached; a class with none
\* matches once without doc, completed when the walk leaves the class.
ClassMatchesAt(n) ==
    IF n.type # "class_definition" THEN ClassMatchesOfAll(n.children)
    ELSE LET base == [name |-> ChildrenOfField(n, "name"), class_node |-> <<n>>]
             kids == BodyOf(n).children
             RECURSIVE Walk(_)
             Walk(s) ==
                 IF s = <<>> THEN <<>>
                 ELSE (IF IsStringStmt(Head(s))
                       THEN <<[name |-> base.name, doc |-> <<Head(s)>>,
                               class_node |-> <<n>>]>>
                       ELSE ClassMatchesAt(Head(s)))
                      \o Walk(Tail(s))
         IN  Walk(kids) \o (IF StringStmts(kids) = <<>> THEN <<base>> ELSE <<>>)

ClassMatchesOfAll(s) ==
    IF s = <<>> THEN <<>> ELSE ClassMatchesAt(Head(s)) \o ClassMatchesOfAll(Tail(s))

ClassMatches(root) == ClassMatchesAt(root)

----------------------------------------------------------------------------
(* Stractor (core.py).  self is the record [contents, tree] of the         *)
(* instance's fields.                                                      *)

\* b[i:j] for 0 <= i <= j: a slice never fails, it stops at the end of b.
Slice(b, i, j) ==
    SubSeq(b, (IF i < Len(b) THEN i ELSE Len(b)) + 1, IF j < Len(b) THEN j ELSE Len(b))

\* Stractor._text
_text(self, node) ==
    IF node = NoNode THEN <<>>
    ELSE Decode(Slice(self.contents, node.start, node.end))

\* Stractor._get_node
_get_node(match_dict, key) ==
    IF key \in DOMAIN match_dict THEN match_dict[key][1] ELSE NoNode

Quotes == {"'", "\""}

Parens == {"(", ")"}

\* x if x else None
OrNone(x) == IF x = <<>> \/ x = None THEN None ELSE x

\* Stractor._get_module_docstring
_get_module_docstring(self) ==
    LET matches == ModuleDocMatches(self.tree)
    IN  IF matches # <<>>
        THEN LET doc_node == _get_node(matches[1], "doc")
                 doc_text == Strip(StripChars(_text(self, doc_node), Quotes))
             IN  OrNone(doc_text)
        ELSE None

Returned(v) == [raised |-> "", value |-> v]

Raised(e) == [raised |-> e, value |-> <<>>]

RECURSIVE NonEmptyTexts(_, _)
\* The loop "for node in ...: t = self._text(node); if t: out.append(t)"
NonEmptyTexts(self, nodes) ==
    IF nodes = <<>> THEN <<>>
    ELSE (IF _text(self, Head(nodes)) # <<>> THEN <<_text(self, Head(nodes))>>
          ELSE <<>>)
         \o NonEmptyTexts(self, Tail(nodes))

\* Stractor._get_imports
_get_imports(self) ==
    LET captures == ImportCaptures(self.tree)
    IN  IF "import" \notin DOMAIN captures THEN Raised("KeyError")
        ELSE Returned(NonEmptyTexts(self, captures["import"]))

\* Stractor._get_top_level_attributes
_get_top_level_attributes(self) ==
    LET captures == AssignmentCaptures(self.tree)
    IN  IF "assignment" \notin DOMAIN captures THEN Raised("KeyError")
        ELSE Returned(NonEmptyTexts(self, captures["assignment"]))

RECURSIVE FilterLines(_, _, _)
\* The line loop of _extract_docstring_and_body: filtered_lines for the
\* lines still to scan, given the current skip_docstring.
FilterLines(lines, needle, skip_docstring) ==
    IF lines = <<>> THEN <<>>
    ELSE LET line == Head(lines)
         IN  IF Contains(needle, line) /\ ~skip_docstring
             THEN FilterLines(Tail(lines), needle, TRUE)
             ELSE IF ~skip_docstring \/ Strip(line) # <<>>
                  THEN <<line>> \o FilterLines(Tail(lines), needle, FALSE)
                  ELSE FilterLines(Tail(lines), needle, skip_docstring)

\* The final clean-up of body in _extract_docstring_and_body.
CleanBody(body) ==
    IF body = <<>> THEN body
    ELSE LET b == Strip(body)
         IN  IF b # <<>> /\ Head(b) = "{" /\ b[Len(b)] = "}"
             THEN Strip(SubSeq(b, 2, Len(b) - 1))
             ELSE b

\* Stractor._extract_docstring_and_body: <<docstring, body>>
_extract_docstring_and_body(self, body_node) ==
    IF body_node = NoNode THEN <<None, None>>
    ELSE LET full_body_text == _text(self, body_node)
             matches == BlockDocMatches(body_node)
         IN  IF matches # <<>>
             THEN LET doc_node == _get_node(matches[1], "doc")
                      docstring_text == _text(self, doc_node)
                      docstring == Strip(StripChars(docstring_text, Quotes))
                      body_lines == SplitLines(full_body_text)
                      filtered_lines ==
                          FilterLines(body_lines, Strip(docstring_text), FALSE)
                      body == Strip(JoinLines(filtered_lines))
                  IN  <<docstring, CleanBody(body)>>
             ELSE <<None, CleanBody(full_body_text)>>

\* The Function built from one match, in _get_module_functions and in
\* _get_methods_of_class.
FunctionOf(self, match) ==
    LET name == _text(self, _get_node(match, "name"))
        params == _text(self, _get_node(match, "params"))
        return_type == _text(self, _get_node(match, "return_type"))
        db == _extract_docstring_and_body(self, _get_node(match, "body"))
        stripped == IF params # <<>> THEN StripChars(params, Parens) ELSE params
    IN  [name |-> name,
         parameters |-> OrNone(stripped),
         return_type |-> OrNone(return_type),
         documentation |-> OrNone(db[1]),
         body |-> OrNone(db[2])]

\* Stractor._get_module_functions
_get_module_functions(self) ==
    LET matches == ModuleFunctionMatches(self.tree)
    IN  [i \in 1..Len(matches) |-> FunctionOf(self, matches[i])]

\* Stractor._get_methods_of_class
_get_methods_of_class(self, class_node) ==
    LET matches == MethodMatches(class_node)
    IN  [i \in 1..Len(matches) |-> FunctionOf(self, matches[i])]

\* The Entity built from one match in _get_classes.
EntityOf(self, match) ==
    LET name == _text(self, _get_node(match, "name"))
        doc0 == _text(self, _get_node(match, "doc"))
        doc  == IF doc0 # <<>> THEN Strip(StripChars(doc0, Quotes)) ELSE doc0
    IN  [name |-> name, type |-> "class", documentation |-> OrNone(doc),
         methods |-> _get_methods_of_class(self, _get_node(match, "class_node"))]

\* Stractor._get_classes
_get_classes(self) ==
    LET matches == ClassMatches(self.tree)
    IN  [i \in 1..Len(matches) |-> EntityOf(self, matches[i])]

\* What parse hands back: a SourceFile, or the exception it raised.
Outcome(raised, path, documentation, imports, attrs, functions, entities) ==
    [raised |-> raised, path |-> path, documentation |-> documentation,
     imports |-> imports, top_level_attributes |-> attrs,
     top_level_functions |-> functions, entities |-> entities]

\* Stractor.parse, lines 31-52: the extraction over the instance's fields.
Extract(self, path) ==
    LET documentation == _get_module_docstring(self)
        imports == _get_imports(self)
        top_level_attributes == _get_top_level_attributes(self)
    IN  IF imports.raised # ""
        THEN Outcome(imports.raised, "", None, <<>>, <<>>, <<>>, <<>>)
        ELSE IF top_level_attributes.raised # ""
        THEN Outcome(top_level_attributes.raised, "", None, <<>>, <<>>, <<>>, <<>>)
        ELSE Outcome("", path, documentation, imports.value,
                     top_level_attributes.value, _get_module_functions(self),
                     _get_classes(self))

----------------------------------------------------------------------------
(* The instance and its operations.                                        *)

\* self.contents after line 27 of parse.
ContentsAfterParse_cached(old, source_code) ==
    IF old = None THEN Encode(source_code) ELSE old

ContentsAfterParse(old, source_code) == Encode(source_code)

\* Stractor.__init__: no text and no tree yet.
Init ==
    /\ contents = None
    /\ tree = NoNode
    /\ result = Outcome("no call", "", None, <<>>, <<>>, <<>>, <<>>)
    /\ lastSrc = <<>>
    /\ lastPath = ""
    /\ reused = FALSE

\* A new Stractor replaces the instance: nothing has been parsed by it.
Construct ==
    /\ contents' = None
    /\ tree' = NoNode
    /\ result' = Outcome("no call", "", None, <<>>, <<>>, <<>>, <<>>)
    /\ lastSrc' = <<>>
    /\ lastPath' = ""
    /\ reused' = FALSE

\* stractor.parse(Source(p), path); result is what the call hands back.
Parse(p, path) ==
    /\ contents' = ContentsAfterParse(contents, Source(p))
    /\ tree' = ParserParse(p)
    /\ result' = Extract([contents |-> contents', tree |-> tree'], path)
    /\ lastSrc' = p
    /\ lastPath' = path
    /\ reused' = (contents # None)

----------------------------------------------------------------------------
(* The inputs: texts, statements and programs.                             *)

\* import a
TImport == <<"i", "m", "p", "o", "r", "t", " ", "a">>

\* from b import c
TFrom == <<"f", "r", "o", "m", " ", "b", " ", "i", "m", "p", "o", "r", "t", " ", "c">>

\* x = 1
TAssign == <<"x", " ", "=", " ", "1">>

\* pass
TPass == <<"p", "a", "s", "s">>

\* "d"
TDoc == <<"\"", "d", "\"">>

\* 'e'
TDoc2 == <<"'", "e", "'">>

\* '''q"h"'''
TDocQuoted == <<"'", "'", "'", "q", "\"", "h", "\"", "'", "'", "'">>

\* """a\n b"""
TDocLines == <<"\"", "\"", "\"", "a", "\n", " ", "b", "\"", "\"", "\"">>

\* ""
TDocEmpty == <<"\"", "\"">>

\* "é"
TDocAccent == <<"\"", "e_acute", "\"">>

\* y = "d"
TAssignDoc == <<"y", " ", "=", " ", "\"", "d", "\"">>

\* ()
TParamsNone == <<"(", ")">>

\* (s)
TParamsSelf == <<"(", "s", ")">>

\* (x=h())
TParamsCall == <<"(", "x", "=", "h", "(", ")", ")">>

\* (a=(1, 2))
TParamsTuple == <<"(", "a", "=", "(", "1", ",", " ", "2", ")", ")">>

Import == Simple("import_statement", TImport)

FromImport == Simple("import_from_statement", TFrom)

Assign == Expr("assignment", TAssign, 0)

Pass == Simple("pass_statement", TPass)

Str(text) == Expr("string", text, 0)

\* The statements of which module-level sequences are built.
ModulePool == {Import, FromImport, Assign, Str(TDoc)}

\* The longest generated sequence of module-level statements.
MaxStmts == 2

RECURSIVE SeqsOfLen(_, _)
SeqsOfLen(S, n) ==
    IF n = 0 THEN {<<>>}
    ELSE {<<x>> \o s : x \in S, s \in SeqsOfLen(S, n - 1)}

SeqsUpTo(S, n) == UNION {SeqsOfLen(S, i) : i \in 0..n}

F == <<"f">>

G == <<"g">>

\* Function definitions: parameter lists, return types, docstring shapes,
\* blank lines, nested definitions.
Functions ==
    { Def(F, TParamsNone, None, <<Pass>>),
      Def(F, TParamsCall, None, <<Str(TDoc), Pass>>),
      Def(F, TParamsTuple, <<"T">>, <<Str(TDoc)>>),
      Def(F, TParamsSelf, None, <<Str(TDocLines)>>),
      Def(F, TParamsSelf, None, <<Str(TDocLines), Pass>>),
      Def(F, TParamsSelf, None, <<Pass, Str(TDoc)>>),
      Def(F, TParamsSelf, None, <<Str(TDocQuoted), Pass>>),
      Def(F, TParamsSelf, None, <<Str(TDocEmpty), Pass>>),
      Def(F, TParamsSelf, None, <<Str(TDocAccent), Pass>>),
      Def(F, TParamsSelf, None, <<Expr("string", TDoc, 1), Pass>>),
      Def(F, TParamsSelf, None, <<Expr("string", TDoc, 2), Pass>>),
      Def(F, TParamsSelf, None, <<Pass, Expr("string", TDoc, 2), Assign>>),
      Def(F, TParamsSelf, None, <<Str(TDoc), Expr("assignment", TAssignDoc, 0)>>),
      Def(F, TParamsSelf, None,
          <<Str(TDoc), Assign, Expr("assignment", TAssignDoc, 0)>>),
      Def(F, TParamsSelf, None, <<Str(TDoc), Str(TDoc2)>>),
      Def(F, TParamsNone, None, <<Def(G, TParamsNone, None, <<Pass>>)>>),
      Def(F, TParamsNone, None, <<Cls(G, <<Pass>>)>>) }

\* Class definitions: docstrings, methods, nested functions and classes.
Classes ==
    { Cls(F, <<Pass>>),
      Cls(F, <<Str(TDoc), Def(G, TParamsSelf, <<"T">>, <<Str(TDoc2), Pass>>)>>),
      Cls(F, <<Def(F, TParamsSelf, None, <<Pass>>),
               Def(G, TParamsSelf, None, <<Pass>>)>>),
      Cls(F, <<Def(F, TParamsSelf, None,
                   <<Def(G, TParamsNone, None, <<Pass>>)>>)>>),
      Cls(F, <<Cls(G, <<Def(G, TParamsSelf, None, <<Pass>>)>>)>>),
      Cls(F, <<Str(TDoc), Str(TDoc2)>>),
      Cls(F, <<Pass, Str(TDoc)>>),
      Cls(F, <<Str(TDocQuoted), Pass>>),
      Cls(F, <<Str(TDocLines), Pass>>) }

Definitions == Functions \cup Classes

\* The programs handed to parse: every short sequence of module-level
\* statements; every definition alone, and after an import and an
\* assignment; pairs of definitions.
Programs ==
    SeqsUpTo(ModulePool, MaxStmts)
    \cup {<<Import, FromImport, Import, Assign>>,
          <<Assign, Import, Import, Str(TDocQuoted)>>,
          <<Str(TDocQuoted), Import, Assign, Assign>>,
          <<Str(TDocEmpty), FromImport, Assign, Str(TDoc)>>,
          <<Str(TDocAccent), Import, Assign>>}
    \cup {<<d>> : d \in Definitions}
    \cup {<<Import, Assign, d>> : d \in Definitions}
    \cup {<<Str(TDoc), Import, Assign, d, Cls(G, <<Pass>>)>> : d \in Definitions}
    \cup {<<Import, Assign, Def(G, TParamsNone, None, <<Pass>>), d>> :
              d \in Definitions}

Paths == {"", "a.py"}

Next ==
    \/ Construct
    \/ \E p \in Programs, path \in Paths : Parse(p, path)

Spec == Init /\ [][Next]_vars

----------------------------------------------------------------------------
(* The claims.  Each is stated over the outcome of the last parse call     *)
(* and the program it was given.                                           *)

Called == result.raised # "no call"

Succeeded == result.raised = ""

RECURSIVE StmtsOfKind(_, _)
\* The statements of kind k among stmts, in order.
StmtsOfKind(stmts, k) ==
    IF stmts = <<>> THEN <<>>
    ELSE (IF Head(stmts).k = k THEN <<Head(stmts)>> ELSE <<>>)
         \o StmtsOfKind(Tail(stmts), k)

RECURSIVE StmtsOfType(_, _)
StmtsOfType(stmts, types) ==
    IF stmts = <<>> THEN <<>>
    ELSE (IF Head(stmts).type \in types THEN <<Head(stmts)>> ELSE <<>>)
         \o StmtsOfType(Tail(stmts), types)

IsBareString(s) == s.k = "expr" /\ s.inner = "string"

IsAssignment(s) == s.k = "expr" /\ s.inner = "assignment"

FirstIsDocstring(stmts) == stmts # <<>> /\ IsBareString(stmts[1])

TopDefs == StmtsOfKind(lastSrc, "def")

TopClasses == StmtsOfKind(lastSrc, "class")

TopImports == StmtsOfType(lastSrc, {"import_statement", "import_from_statement"})

TopAssignments ==
    LET RECURSIVE Pick(_)
        Pick(stmts) == IF stmts = <<>> THEN <<>>
                       ELSE (IF IsAssignment(Head(stmts)) THEN <<Head(stmts)>>
                             ELSE <<>>) \o Pick(Tail(stmts))
    IN  Pick(lastSrc)

Texts(stmts) == [i \in 1..Len(stmts) |-> stmts[i].text]

Names(xs) == [i \in 1..Len(xs) |-> xs[i].name]

\* The entities of the outcome line up with the top-level classes.
EntitiesLineUp == Len(result.entities) = Len(TopClasses)

\* C1: parse is total: whenever the engine returns a tree, parse returns a
\* SourceFile and raises nothing; a module without import statement has
\* imports = [], one without top-level assignment top_level_attributes = [].
C1_ParseIsTotal ==
    Called =>
        /\ Succeeded
        /\ (TopImports = <<>> => result.imports = <<>>)
        /\ (TopAssignments = <<>> => result.top_level_attributes = <<>>)

\* C2: in every scope (module, class body, function body) documentation
\* comes from the first statement only: when the first statement is not a
\* bare string literal, documentation is None, whatever follows.
C2_DocOnlyFromFirstStatement ==
    (Called /\ Succeeded) =>
        /\ (~FirstIsDocstring(lastSrc) => result.documentation = None)
        /\ \A i \in 1..Len(TopDefs) :
              ~FirstIsDocstring(TopDefs[i].body)
                  => result.top_level_functions[i].documentation = None
        /\ EntitiesLineUp =>
              \A i \in 1..Len(TopClasses) :
                  ~FirstIsDocstring(TopClasses[i].body)
                      => result.entities[i].documentation = None

\* C3: the methods of a class are exactly the function definitions that are
\* direct children of its body, in source order; functions nested in a
\* method or belonging to a nested class are not among them.
C3_MethodsAreDirectChildren ==
    (Called /\ Succeeded /\ EntitiesLineUp) =>
        \A i \in 1..Len(TopClasses) :
            Names(result.entities[i].methods)
                = Names(StmtsOfKind(TopClasses[i].body, "def"))

\* C4: entities holds exactly one Entity per class definition that is a
\* direct child of the module, and none for any other class.
C4_EntitiesAreTopLevelClasses ==
    (Called /\ Succeeded) => Names(result.entities) = Names(TopClasses)

IsPrefix(a, b) == Len(a) <= Len(b) /\ SubSeq(b, 1, Len(a)) = a

\* C5: when the first statement of a function's block is a docstring, on
\* one line or several, the returned body does not hold the docstring
\* literal; a body that is only a docstring gives body = None.
C5_BodyExcludesDocstring ==
    (Called /\ Succeeded) =>
        \A i \in 1..Len(TopDefs) :
            FirstIsDocstring(TopDefs[i].body) =>
                /\ ~IsPrefix(TopDefs[i].body[1].text,
                             result.top_level_functions[i].body)
                /\ (Len(TopDefs[i].body) = 1
                        => result.top_level_functions[i].body = None)

\* C6: parameters is the parameter-list text without its first "(" and its
\* last ")", and otherwise untouched.
C6_ParametersLoseOnlyOuterParens ==
    (Called /\ Succeeded) =>
        \A i \in 1..Len(TopDefs) :
            result.top_level_functions[i].parameters
                = OrNone(SubSeq(TopDefs[i].params, 2, Len(TopDefs[i].params) - 1))

\* The text of a string literal between its delimiters: three quote
\* characters at each end for a triple-quoted literal, one otherwise.
Unquote(lit) ==
    LET n == IF Len(lit) >= 6 /\ lit[1] = lit[2] /\ lit[2] = lit[3] THEN 3 ELSE 1
    IN  SubSeq(lit, n + 1, Len(lit) - n)

\* C7: a docstring found is the literal with exactly one layer of quote
\* delimiters removed, then trimmed; quote characters of the content stay;
\* an empty result is None.
C7_OneLayerOfQuotesRemoved ==
    (Called /\ Succeeded) =>
        /\ (FirstIsDocstring(lastSrc)
                => result.documentation = OrNone(Strip(Unquote(lastSrc[1].text))))
        /\ \A i \in 1..Len(TopDefs) :
              FirstIsDocstring(TopDefs[i].body) =>
                  result.top_level_functions[i].documentation
                      = OrNone(Strip(Unquote(TopDefs[i].body[1].text)))

\* What a new instance hands back for the arguments of the last call.
FreshParse ==
    Extract([contents |-> Encode(Source(lastSrc)), tree |-> ParserParse(lastSrc)],
            lastPath)

\* C8: whatever the instance parsed before, parse hands back what a new
\* instance hands back for the same source text and path.
C8_ParseIsHistoryIndependent == Called => result = FreshParse

\* C8 witness: a call on an instance that had parsed before, returning
\* functions and entities.
C8_Witness ==
    /\ reused
    /\ Succeeded
    /\ result.top_level_functions # <<>>
    /\ result.entities # <<>>
    /\ lastPath # ""

\* C9: imports, top_level_attributes, top_level_functions, entities and each
\* entity's methods hold one entry per construct of their scope, in source
\* order, none dropped, none twice.
C9_OneEntryPerConstructInOrder ==
    Called =>
        /\ Succeeded
        /\ result.imports = Texts(TopImports)
        /\ result.top_level_attributes = Texts(TopAssignments)
        /\ Names(result.top_level_functions) = Names(TopDefs)
        /\ Names(result.entities) = Names(TopClasses)
        /\ \A i \in 1..Len(TopClasses) :
              Names(result.entities[i].methods)
                  = Names(StmtsOfKind(TopClasses[i].body, "def"))

RECURSIVE DropFirstDocLine(_, _)
\* The scan as C10 states it: the first line holding the literal goes, and
\* with it the line right after when that one is blank; the rest stays.
DropFirstDocLine(lines, needle) ==
    IF lines = <<>> THEN <<>>
    ELSE IF Contains(needle, Head(lines))
         THEN IF Len(lines) >= 2 /\ Strip(lines[2]) = <<>>
              THEN SubSeq(lines, 3, Len(lines))
              ELSE Tail(lines)
         ELSE <<Head(lines)>> \o DropFirstDocLine(Tail(lines), needle)

HasNoDefinition(stmts) == \A i \in 1..Len(stmts) : stmts[i].k \in {"simple", "expr"}

FirstBareString(stmts) ==
    stmts[CHOOSE i \in 1..Len(stmts) :
              IsBareString(stmts[i]) /\ \A j \in 1..(i - 1) : ~IsBareString(stmts[j])]

\* C10: the line scan drops the first line that holds the docstring literal
\* and the one blank line right after it, and keeps every other line in
\* order, a later line holding the same literal and a second blank line
\* included.
C10_ScanDropsOneLineAndOneBlank ==
    (Called /\ Succeeded) =>
        \A i \in 1..Len(TopDefs) :
            LET stmts == TopDefs[i].body
            IN  (HasNoDefinition(stmts) /\ \E j \in 1..Len(stmts) : IsBareString(stmts[j]))
                =>  result.top_level_functions[i].body
                      = OrNone(CleanBody(Strip(JoinLines(
                            DropFirstDocLine(SplitLines(RenderBlock(stmts, 1)),
                                             Strip(FirstBareString(stmts).text))))))

====
